---- MODULE Spec2Model ----
(***************************************************************************)
(* Model of armor_detector/src/openvino_detector.cpp (rm_auto_aim):        *)
(* letterbox, generate_proposals and the OpenVINODetector dispatcher       *)
(* (push_input / set_callback / process_callback).                         *)
(*                                                                         *)
(* Numbers.  Pixel coordinates, scales and matrix entries are exact        *)
(* rationals <<num, den>> (den > 0, lowest terms); the C++ code uses       *)
(* float/double.  In letterbox the binary rounding matters in one place:   *)
(* round(img*scale) when img*scale is exactly k + 1/2 and scale is not a   *)
(* binary fraction; the float product may fall on either side, so the      *)
(* result is a choice (parameter tieUp).  In generate_proposals a mapped   *)
(* coordinate that is an exact integer may be floored one pixel lower by   *)
(* the float code; the boxes used here overlap by 0 or by more than 0.9,   *)
(* far from the overlap threshold.  Confidences and thresholds are         *)
(* integers in hundredths (0.9 is 90).                                     *)
(***************************************************************************)
EXTENDS Integers, Sequences, FiniteSets, TLC

VARIABLES
  infer_callback_,   \* registered callback: 0 = empty std::function, else id
  cbWriting,         \* callback a running set_callback is assigning, or NoWrite
  conf_threshold_,   \* configuration, hundredths
  top_k_,            \* configuration
  nms_threshold_,    \* configuration, hundredths
  ptsBuild,          \* what the build makes of the out-of-bounds writes to obj.pts
  crashed,           \* the process was aborted
  tasks,             \* submission id -> state of that push_input call / unit of work
  lbIn,              \* arguments of a direct letterbox call
  lbOut,             \* its result
  gpIn,              \* arguments of a direct generate_proposals call
  gpOut              \* its result

vars == <<infer_callback_, cbWriting, conf_threshold_, top_k_, nms_threshold_, ptsBuild,
          crashed, tasks, lbIn, lbOut, gpIn, gpOut>>

----------------------------------------------------------------------------
(* Program constants *)

INPUT_W == 416
INPUT_H == 416
NUM_CLASSES == 8
NUM_COLORS == 4

(* Bounds of the model *)

MaxSubmit == 2     \* push_input calls in one behaviour
MaxRows == 2       \* rows of the model's output tensor
MaxDim == 6        \* small image / target dimensions tried in letterbox

NotCalled == [st |-> "none"]
NoWrite == -1
NoArgs == [st |-> "none"]

----------------------------------------------------------------------------
(* Exact rational arithmetic *)

Abs(i) == IF i < 0 THEN -i ELSE i

RECURSIVE GCD(_, _)
GCD(a, b) == IF b = 0 THEN a ELSE GCD(b, a % b)

Rat(n, d) ==
  LET s == IF d < 0 THEN -1 ELSE 1
      g == GCD(Abs(n), Abs(d))
  IN  <<(s * n) \div g, (s * d) \div g>>

RInt(i) == <<i, 1>>
RAdd(a, b) == Rat(a[1] * b[2] + b[1] * a[2], a[2] * b[2])
RSub(a, b) == Rat(a[1] * b[2] - b[1] * a[2], a[2] * b[2])
RMul(a, b) == Rat(a[1] * b[1], a[2] * b[2])
RDiv(a, b) == Rat(a[1] * b[2], a[2] * b[1])
RNeg(a) == <<-a[1], a[2]>>
RLess(a, b) == a[1] * b[2] < b[1] * a[2]
RLeq(a, b) == a[1] * b[2] <= b[1] * a[2]
RMin(a, b) == IF RLess(b, a) THEN b ELSE a
RAbs(a) == <<Abs(a[1]), a[2]>>

\* floor of a rational (cvFloor)
RFloor(a) == a[1] \div a[2]

\* C round(): nearest integer, halves away from zero
RRound(a) ==
  IF a[1] >= 0 THEN (2 * a[1] + a[2]) \div (2 * a[2])
  ELSE -((2 * (-a[1]) + a[2]) \div (2 * a[2]))

RECURSIVE IsPow2(_)
IsPow2(n) == IF n = 1 THEN TRUE ELSE IF n % 2 = 1 THEN FALSE ELSE IsPow2(n \div 2)

\* round(img * scale) as the float computation gives it: scale is stored as
\* a float, so when it is not a binary fraction and img*scale is exactly
\* half-way, the stored product lies on either side of the half.
RoundScaled(img, scale, tieUp) ==
  LET p == RMul(RInt(img), scale)
  IN  IF p[2] = 2 /\ ~IsPow2(scale[2]) /\ ~tieUp THEN RFloor(p) ELSE RRound(p)

----------------------------------------------------------------------------
(* letterbox, lines 27-77 *)

letterbox_fullpad(img_w, img_h, new_shape, tieUp) ==
  LET scale == RMin(Rat(new_shape[2], img_h), Rat(new_shape[1], img_w))
      resize_h == RoundScaled(img_h, scale, tieUp)
      resize_w == RoundScaled(img_w, scale, tieUp)
      pad_h == new_shape[2] - resize_h
      pad_w == new_shape[1] - resize_w
      half_h == Rat(pad_h, 2)
      half_w == Rat(pad_w, 2)
      top == RRound(RSub(half_h, Rat(1, 10)))
      bottom == RRound(RAdd(half_h, Rat(1, 10)))
      left == RRound(RSub(half_w, Rat(1, 10)))
      right == RRound(RAdd(half_w, Rat(1, 10)))
  IN  IF resize_w <= 0 \/ resize_h <= 0
      THEN [st |-> "threw", scale |-> scale, resize_w |-> resize_w, resize_h |-> resize_h]
      ELSE [st |-> "ok", scale |-> scale,
            resize_w |-> resize_w, resize_h |-> resize_h,
            pad_w |-> pad_w, pad_h |-> pad_h,
            top |-> top, bottom |-> bottom, left |-> left, right |-> right,
            transform_matrix |->
              <<RDiv(RInt(1), scale), RInt(0), RDiv(RNeg(RInt(pad_w)), scale),
                RInt(0), RDiv(RInt(1), scale), RDiv(RNeg(RInt(pad_h)), scale),
                RInt(0), RInt(0), RInt(1)>>,
            out_w |-> resize_w + left + right,
            out_h |-> resize_h + top + bottom]

\* cv::resize to a size with a zero side raises cv::Exception, which leaves
\* letterbox before the matrix is written (st = "threw").  transform_matrix is the
\* 3x3 matrix in row-major order.
letterbox(img_w, img_h, new_shape, tieUp) ==
  LET scale == RMin(Rat(new_shape[2], img_h), Rat(new_shape[1], img_w))
      resize_h == RoundScaled(img_h, scale, tieUp)
      resize_w == RoundScaled(img_w, scale, tieUp)
      pad_h == new_shape[2] - resize_h
      pad_w == new_shape[1] - resize_w
      half_h == Rat(pad_h, 2)
      half_w == Rat(pad_w, 2)
      top == RRound(RSub(half_h, Rat(1, 10)))
      bottom == RRound(RAdd(half_h, Rat(1, 10)))
      left == RRound(RSub(half_w, Rat(1, 10)))
      right == RRound(RAdd(half_w, Rat(1, 10)))
  IN  IF resize_w <= 0 \/ resize_h <= 0
      THEN [st |-> "threw", scale |-> scale, resize_w |-> resize_w, resize_h |-> resize_h]
      ELSE [st |-> "ok", scale |-> scale,
            resize_w |-> resize_w, resize_h |-> resize_h,
            pad_w |-> pad_w, pad_h |-> pad_h,
            top |-> top, bottom |-> bottom, left |-> left, right |-> right,
            transform_matrix |->
              <<RDiv(RInt(1), scale), RInt(0), RDiv(RNeg(half_w), scale),
                RInt(0), RDiv(RInt(1), scale), RDiv(RNeg(half_h), scale),
                RInt(0), RInt(0), RInt(1)>>,
            out_w |-> resize_w + left + right,
            out_h |-> resize_h + top + bottom]

\* transform_matrix * (x, y, 1)^T, first two components (line 119)
ApplyTransform(m, pt) ==
  <<RAdd(RAdd(RMul(m[1], pt[1]), RMul(m[2], pt[2])), m[3]),
    RAdd(RAdd(RMul(m[4], pt[1]), RMul(m[5], pt[2])), m[6])>>

----------------------------------------------------------------------------
(* Output tensor rows and detections *)

\* A raw row is a sequence of 9 + NUM_COLORS + NUM_CLASSES numbers: four
\* points x1 y1 .. x4 y4 (columns 0-7), the confidence (column 8), the
\* colour scores and the number scores.  Columns are counted from 0 as in
\* the source.  A cv::Rect is [x, y, width, height].

\* output_buffer.at<float>(i, col) on row i
At(row, col) == row[col + 1]

\* output_buffer.row(i).colRange(from, to)
ColRange(row, from, to) == SubSeq(row, from + 1, to)

Rect0 == [x |-> 0, y |-> 0, width |-> 0, height |-> 0]

Area(r) == r.width * r.height

Max2(a, b) == IF a > b THEN a ELSE b
Min2(a, b) == IF a < b THEN a ELSE b

\* cv::Rect operator& : empty rectangle when the two do not meet
RectAnd(a, b) ==
  LET x1 == Max2(a.x, b.x)
      y1 == Max2(a.y, b.y)
      w == Min2(a.x + a.width, b.x + b.width) - x1
      h == Min2(a.y + a.height, b.y + b.height) - y1
  IN  IF w <= 0 \/ h <= 0 THEN Rect0 ELSE [x |-> x1, y |-> y1, width |-> w, height |-> h]

\* cv::minMaxLoc maxLoc.x: 0-based position of the first maximal score
ArgMax(v) ==
  (CHOOSE i \in 1 .. Len(v) :
     /\ \A j \in 1 .. Len(v) : v[j] <= v[i]
     /\ \A j \in 1 .. (i - 1) : v[j] < v[i]) - 1

RECURSIVE RMinOf(_, _)
RMinOf(q, i) == IF i = Len(q) THEN q[i] ELSE RMin(q[i], RMinOf(q, i + 1))
RMaxOf(q) == RNeg(RMinOf([i \in 1 .. Len(q) |-> RNeg(q[i])], 1))

\* cv::boundingRect of float points: floor of the extremes, sides + 1; the
\* empty rectangle for an empty point vector
boundingRect(pts) ==
  IF Len(pts) = 0 THEN Rect0
  ELSE LET xs == [i \in 1 .. Len(pts) |-> pts[i][1]]
           ys == [i \in 1 .. Len(pts) |-> pts[i][2]]
           xmin == RFloor(RMinOf(xs, 1))
           ymin == RFloor(RMinOf(ys, 1))
           xmax == RFloor(RMaxOf(xs))
           ymax == RFloor(RMaxOf(ys))
       IN  [x |-> xmin, y |-> ymin, width |-> xmax - xmin + 1, height |-> ymax - ymin + 1]

----------------------------------------------------------------------------
(* generate_proposals, lines 79-141 *)

RowSkipped_strict(confidence, conf_threshold) == confidence <= conf_threshold

\* line 86
RowSkipped(confidence, conf_threshold) == confidence < conf_threshold

\* Lines 123-128 reserve four points and then assign pts[0..3] of a vector
\* whose size is still 0: undefined behaviour.  The builds differ:
\*   "lost"   the writes land in the reserved storage, size() stays 0, so
\*            boundingRect sees no points and every box is the empty Rect;
\*   "stored" the four points are seen by boundingRect and by the consumer;
\*   "abort"  a checked operator[] aborts the process at the first write.
Builds == {"lost", "stored", "abort"}

\* lines 90-135 for one kept row
MakeObject(row, transform_matrix, build) ==
  LET color_scores == ColRange(row, 9, 9 + NUM_COLORS)
      num_scores == ColRange(row, 9 + NUM_COLORS, 9 + NUM_COLORS + NUM_CLASSES)
      apex_dst == [k \in 1 .. 4 |->
                     ApplyTransform(transform_matrix,
                                    <<RInt(At(row, 2 * (k - 1))), RInt(At(row, 2 * (k - 1) + 1))>>)]
      pts == IF build = "stored" THEN apex_dst ELSE <<>>
      rect == boundingRect(pts)
  IN  [pts |-> pts, box |-> rect,
       color |-> ArgMax(color_scores),
       number |-> ArgMax(num_scores),
       prob |-> At(row, 8)]

RECURSIVE generate_proposals_loop(_, _, _, _, _, _)
generate_proposals_loop(acc, i, output_buffer, transform_matrix, conf_threshold, build) ==
  IF i > Len(output_buffer) THEN acc
  ELSE IF RowSkipped(At(output_buffer[i], 8), conf_threshold)
       THEN generate_proposals_loop(acc, i + 1, output_buffer, transform_matrix,
                                    conf_threshold, build)
  ELSE IF build = "abort" THEN [acc EXCEPT !.st = "abort"]
  ELSE LET obj == MakeObject(output_buffer[i], transform_matrix, build)
       IN  generate_proposals_loop(
             [acc EXCEPT !.rects = Append(@, obj.box),
                         !.scores = Append(@, obj.prob),
                         !.output_objs = Append(@, obj)],
             i + 1, output_buffer, transform_matrix, conf_threshold, build)

generate_proposals(output_buffer, transform_matrix, conf_threshold, build) ==
  generate_proposals_loop([st |-> "ok", output_objs |-> <<>>, scores |-> <<>>, rects |-> <<>>],
                          1, output_buffer, transform_matrix, conf_threshold, build)

----------------------------------------------------------------------------
(* cv::dnn::NMSBoxes as called on lines 241-243 (OpenCV, eta = 1).         *)
(* Indices are positions in the candidate list, 1-based here.              *)

\* GetMaxScoreIndex: candidates with score > score_threshold (strict),
\* stable-sorted by descending score, cut to the first top_k when top_k > 0
RECURSIVE SortDesc(_, _)
SortDesc(scores, idxs) ==
  IF idxs = {} THEN <<>>
  ELSE LET best == CHOOSE i \in idxs :
                     \A j \in idxs : scores[j] < scores[i] \/ (scores[j] = scores[i] /\ i <= j)
       IN  <<best>> \o SortDesc(scores, idxs \ {best})

GetMaxScoreIndex(scores, threshold, top_k) ==
  LET sorted == SortDesc(scores, {i \in 1 .. Len(scores) : scores[i] > threshold})
  IN  IF top_k > 0 /\ top_k < Len(sorted) THEN SubSeq(sorted, 1, top_k) ELSE sorted

\* rectOverlap(a, b) > nms_threshold, with rectOverlap = 1 - jaccardDistance:
\* two rectangles of total area 0 have distance 0, that is overlap 1
OverlapExceeds(a, b, nms_threshold) ==
  IF Area(a) + Area(b) <= 0 THEN 100 > nms_threshold
  ELSE LET Aab == Area(RectAnd(a, b))
       IN  Aab * 100 > nms_threshold * (Area(a) + Area(b) - Aab)

RECURSIVE NMSFast(_, _, _, _, _)
NMSFast(indices, order, i, bboxes, nms_threshold) ==
  IF i > Len(order) THEN indices
  ELSE LET idx == order[i]
           keep == \A k \in 1 .. Len(indices) :
                     ~OverlapExceeds(bboxes[idx], bboxes[indices[k]], nms_threshold)
       IN  NMSFast(IF keep THEN Append(indices, idx) ELSE indices,
                   order, i + 1, bboxes, nms_threshold)

NMSBoxes(bboxes, scores, score_threshold, nms_threshold, top_k) ==
  NMSFast(<<>>, GetMaxScoreIndex(scores, score_threshold, top_k), 1, bboxes, nms_threshold)

\* lines 244-246: one object per returned index, taken at the loop counter
ProjectIndices(objs_tmp, indices) == [i \in 1 .. Len(indices) |-> objs_tmp[i]]

----------------------------------------------------------------------------
(* Direct calls of letterbox *)

Dims == (1 .. MaxDim) \cup {2 * MaxDim + 1, INPUT_W, 640, 1000}
Targets == ((1 .. MaxDim) \X (1 .. MaxDim)) \cup {<<INPUT_W, INPUT_H>>}

Subs == 1 .. MaxSubmit

\* One push_input call.  pc: "idle" not called yet; "lambda" the trivial task
\* of line 182 is scheduled; "threw" push_input left by exception, no handle;
\* "scheduled" process_callback launched (line 190); "infer" inside
\* infer_request.infer(); "decoded" past line 246; "invoke" the test of
\* line 249 passed; "done" the handle is resolved; "aborted".
\* cbAtSchedule, cbTested, cbInvoked, modelCalls, cbCalls and delivered
\* record what happened, for the properties.
IdleTask ==
  [pc |-> "idle", frame |-> <<0, 0>>, timestamp |-> 0, transform_matrix |-> <<>>,
   cbAtSchedule |-> 0, modelCalls |-> 0, output |-> <<>>,
   objs_tmp |-> <<>>, scores |-> <<>>, rects |-> <<>>, indices |-> <<>>,
   objs_result |-> <<>>, cbTested |-> FALSE, cbInvoked |-> 0, cbCalls |-> 0,
   delivered |-> <<>>, result |-> "pending"]

InitLetterbox ==
  /\ infer_callback_ = 0
  /\ cbWriting = NoWrite
  /\ conf_threshold_ = 50
  /\ top_k_ = 1
  /\ nms_threshold_ = 50
  /\ ptsBuild = "lost"
  /\ crashed = FALSE
  /\ tasks = [s \in Subs |-> IdleTask]
  /\ lbIn \in [img_w : Dims, img_h : Dims, new_shape : Targets, tieUp : BOOLEAN]
  /\ lbOut = NotCalled
  /\ gpIn = NoArgs
  /\ gpOut = NotCalled

CallLetterbox ==
  /\ lbOut = NotCalled
  /\ lbOut' = letterbox(lbIn.img_w, lbIn.img_h, lbIn.new_shape, lbIn.tieUp)
  /\ UNCHANGED <<infer_callback_, cbWriting, conf_threshold_, top_k_, nms_threshold_,
                 ptsBuild, crashed, tasks, lbIn, gpIn, gpOut>>

NextLetterbox == CallLetterbox

SpecLetterbox == InitLetterbox /\ [][NextLetterbox]_vars

----------------------------------------------------------------------------
(* Inputs of the dispatcher *)

MaxTopK == 2
Callbacks == {1, 2}

\* frames by <<cols, rows>>.  Submitted concurrently: an empty one, one too
\* thin to letterbox, a 5:4 camera frame
StubFrames == {<<0, 0>>, <<1000, 1>>, <<1280, 1024>>}

\* frames of the single submission
DetectFrames == {<<640, 0>>, <<1280, 1024>>}

\* quadrilaterals x1 y1 .. x4 y4 in network coordinates: A, B overlapping A
\* by more than 90%, C apart from both
QuadA == <<100, 100, 100, 140, 180, 140, 180, 100>>
QuadB == <<102, 101, 102, 141, 182, 141, 182, 101>>
QuadC == <<300, 300, 310, 350, 380, 360, 370, 310>>

\* quadrilateral, colour scores, number scores (the last with tied maxima)
Shapes ==
  {<<QuadA, <<10, 80, 5, 5>>, <<0, 0, 0, 90, 0, 0, 0, 10>>>>,
   <<QuadB, <<10, 20, 70, 0>>, <<0, 5, 0, 0, 0, 90, 0, 0>>>>,
   <<QuadC, <<50, 50, 0, 0>>, <<0, 0, 30, 0, 0, 0, 30, 0>>>>}

\* below, at and above the confidence threshold
Confs == {49, 50, 85, 90}

RowPool == {sh[1] \o <<c>> \o sh[2] \o sh[3] : sh \in Shapes, c \in Confs}

Tensors == UNION {[1 .. n -> RowPool] : n \in 0 .. MaxRows}

Row(q, c) == CHOOSE r \in RowPool : ColRange(r, 0, 8) = q /\ At(r, 8) = c

\* output of the stub model used with concurrent submissions: two
\* overlapping rows, the better one second
StubOutputs == {<<Row(QuadB, 85), Row(QuadA, 90)>>}

----------------------------------------------------------------------------
(* OpenVINODetector *)

InitConfig ==
  /\ infer_callback_ = 0
  /\ cbWriting = NoWrite
  /\ conf_threshold_ = 50
  /\ nms_threshold_ = 50
  /\ top_k_ \in 1 .. MaxTopK
  /\ ptsBuild \in Builds
  /\ crashed = FALSE
  /\ tasks = [s \in Subs |-> IdleTask]
  /\ lbIn = NoArgs
  /\ lbOut = NotCalled
  /\ gpIn = NoArgs
  /\ gpOut = NotCalled

\* concurrent submissions are explored for one configuration
Init == InitConfig /\ top_k_ = MaxTopK /\ ptsBuild = "lost"

Config == <<conf_threshold_, top_k_, nms_threshold_, ptsBuild, lbIn, lbOut, gpIn, gpOut>>
Others == <<cbWriting, Config>>

IsEmpty(frame) == frame[1] = 0 \/ frame[2] = 0

\* the caller numbers its calls; the call number is the timestamp
NextCall(s) == tasks[s].pc = "idle" /\ \A r \in Subs : r < s => tasks[r].pc # "idle"

Identity3 == <<RInt(1), RInt(0), RInt(0), RInt(0), RInt(1), RInt(0), RInt(0), RInt(0), RInt(1)>>

push_input_noreturn(s, frame, tieUp) ==
  /\ ~crashed
  /\ NextCall(s)
  /\ LET lb == IF IsEmpty(frame) THEN [st |-> "ok", transform_matrix |-> Identity3]
               ELSE letterbox(frame[1], frame[2], <<INPUT_W, INPUT_H>>, tieUp)
         t == [tasks[s] EXCEPT !.frame = frame, !.timestamp = s,
                               !.cbAtSchedule = infer_callback_]
     IN  tasks' = [tasks EXCEPT ![s] =
           IF lb.st = "threw" THEN [t EXCEPT !.pc = "threw"]
           ELSE [t EXCEPT !.pc = "scheduled", !.transform_matrix = lb.transform_matrix]]
  /\ UNCHANGED <<infer_callback_, crashed, Others>>

\* lines 178-193
push_input(s, frame, tieUp) ==
  /\ ~crashed
  /\ NextCall(s)
  /\ LET lb == letterbox(frame[1], frame[2], <<INPUT_W, INPUT_H>>, tieUp)
         t == [tasks[s] EXCEPT !.frame = frame, !.timestamp = s,
                               !.cbAtSchedule = infer_callback_]
     IN  tasks' = [tasks EXCEPT ![s] =
           IF IsEmpty(frame) THEN [t EXCEPT !.pc = "lambda"]
           ELSE IF lb.st = "threw" THEN [t EXCEPT !.pc = "threw"]
           ELSE [t EXCEPT !.pc = "scheduled", !.transform_matrix = lb.transform_matrix]]
  /\ UNCHANGED <<infer_callback_, crashed, Others>>

\* the task of line 182
empty_frame_task(s) ==
  /\ ~crashed
  /\ tasks[s].pc = "lambda"
  /\ tasks' = [tasks EXCEPT ![s].pc = "done", ![s].result = "false"]
  /\ UNCHANGED <<infer_callback_, crashed, Others>>

\* lines 195-198; callback 0 is an empty std::function.  The assignment is
\* not atomic and takes no lock: it begins ...
set_callback(callback) ==
  /\ ~crashed
  /\ cbWriting = NoWrite
  /\ cbWriting' = callback
  /\ UNCHANGED <<infer_callback_, tasks, crashed, Config>>

\* ... and ends; one caller thread registers callbacks
set_callback_end ==
  /\ ~crashed
  /\ cbWriting # NoWrite
  /\ infer_callback_' = cbWriting
  /\ cbWriting' = NoWrite
  /\ UNCHANGED <<tasks, crashed, Config>>

\* What an unsynchronised read of infer_callback_ can return: the member,
\* or, while an assignment is running (data race), the old or the new value
Readable == IF cbWriting = NoWrite THEN {infer_callback_} ELSE {infer_callback_, cbWriting}

infer_begin_retry(s) ==
  /\ ~crashed
  /\ tasks[s].pc = "scheduled"
  /\ tasks' = [tasks EXCEPT ![s].pc = "infer", ![s].modelCalls = @ + 2]
  /\ UNCHANGED <<infer_callback_, crashed, Others>>

\* lines 206-220, up to the entry of infer_request.infer()
infer_begin(s) ==
  /\ ~crashed
  /\ tasks[s].pc = "scheduled"
  /\ tasks' = [tasks EXCEPT ![s].pc = "infer", ![s].modelCalls = @ + 1]
  /\ UNCHANGED <<infer_callback_, crashed, Others>>

\* lines 229-246 on the tensor output: the task past the projection loop, or
\* aborted inside generate_proposals
Decoded(t, output) ==
  LET gp == generate_proposals(output, t.transform_matrix, conf_threshold_, ptsBuild)
  IN  IF gp.st = "abort" THEN [t EXCEPT !.pc = "aborted", !.output = output]
      ELSE LET indices == NMSBoxes(gp.rects, gp.scores, conf_threshold_, nms_threshold_, top_k_)
           IN  [t EXCEPT !.pc = "decoded", !.output = output,
                         !.objs_tmp = gp.output_objs,
                         !.scores = gp.scores,
                         !.rects = gp.rects,
                         !.indices = indices,
                         !.objs_result = ProjectIndices(gp.output_objs, indices)]

\* infer() returns one of the tensors in outputs; lines 222-246
infer_end_decode(s, outputs) ==
  /\ ~crashed
  /\ tasks[s].pc = "infer"
  /\ \E output \in outputs :
       /\ tasks' = [tasks EXCEPT ![s] = Decoded(tasks[s], output)]
       /\ crashed' = (tasks'[s].pc = "aborted")
  /\ UNCHANGED <<infer_callback_, Others>>

\* line 249, and line 254 when the callback is empty
callback_test(s, seen) ==
  /\ ~crashed
  /\ tasks[s].pc = "decoded"
  /\ seen \in Readable
  /\ tasks' = [tasks EXCEPT ![s] =
       IF seen # 0
       THEN [@ EXCEPT !.pc = "invoke", !.cbTested = TRUE]
       ELSE [@ EXCEPT !.pc = "done", !.cbTested = FALSE, !.result = "false"]]
  /\ UNCHANGED <<infer_callback_, crashed, Others>>

\* the arguments of line 250
CallArgs(t) == [objs |-> t.objs_result, timestamp |-> t.timestamp, src_img |-> t.frame]

callback_invoke_twice(s, seen) ==
  /\ ~crashed
  /\ tasks[s].pc = "invoke"
  /\ seen \in Readable
  /\ tasks' = [tasks EXCEPT ![s] =
       IF seen # 0
       THEN [@ EXCEPT !.pc = "done", !.cbInvoked = seen, !.cbCalls = @ + 2,
                      !.delivered = Append(@, CallArgs(tasks[s])),
                      !.result = "true"]
       ELSE [@ EXCEPT !.pc = "done", !.result = "exception"]]
  /\ UNCHANGED <<infer_callback_, crashed, Others>>

\* lines 250-251: the member is read again for the call; calling an empty
\* std::function throws std::bad_function_call into the handle
callback_invoke(s, seen) ==
  /\ ~crashed
  /\ tasks[s].pc = "invoke"
  /\ seen \in Readable
  /\ tasks' = [tasks EXCEPT ![s] =
       IF seen # 0
       THEN [@ EXCEPT !.pc = "done", !.cbInvoked = seen, !.cbCalls = @ + 1,
                      !.delivered = Append(@, CallArgs(tasks[s])),
                      !.result = "true"]
       ELSE [@ EXCEPT !.pc = "done", !.result = "exception"]]
  /\ UNCHANGED <<infer_callback_, crashed, Others>>

\* line 250 while an assignment is running: the call goes through a
\* half-written std::function and the process dies
callback_invoke_torn(s) ==
  /\ ~crashed
  /\ tasks[s].pc = "invoke"
  /\ cbWriting # NoWrite
  /\ tasks' = [tasks EXCEPT ![s].pc = "aborted"]
  /\ crashed' = TRUE
  /\ UNCHANGED <<infer_callback_, Others>>

\* concurrent submissions against the stub model
Next ==
  \/ \E c \in Callbacks \cup {0} : set_callback(c)
  \/ set_callback_end
  \/ \E s \in Subs, f \in StubFrames, t \in BOOLEAN : push_input(s, f, t)
  \/ \E s \in Subs : empty_frame_task(s)
  \/ \E s \in Subs : infer_begin(s)
  \/ \E s \in Subs : infer_end_decode(s, StubOutputs)
  \/ \E s \in Subs, seen \in Callbacks \cup {0} : callback_test(s, seen)
  \/ \E s \in Subs, seen \in Callbacks \cup {0} : callback_invoke(s, seen)
  \/ \E s \in Subs : callback_invoke_torn(s)

Spec == Init /\ [][Next]_vars

\* one submission, every output tensor of the domain
InitDetect == InitConfig

NextDetect ==
  \/ \E c \in {0, 1} : set_callback(c)
  \/ set_callback_end
  \/ \E f \in DetectFrames, t \in BOOLEAN : push_input(1, f, t)
  \/ empty_frame_task(1)
  \/ infer_begin(1)
  \/ infer_end_decode(1, Tensors)
  \/ \E seen \in {0, 1} : callback_test(1, seen)
  \/ \E seen \in {0, 1} : callback_invoke(1, seen)
  \/ callback_invoke_torn(1)

SpecDetect == InitDetect /\ [][NextDetect]_vars

----------------------------------------------------------------------------
(* Direct calls of generate_proposals *)

Matrices ==
  {Identity3, letterbox(1280, 1024, <<INPUT_W, INPUT_H>>, TRUE).transform_matrix}

InitDecode ==
  /\ InitConfig
  /\ top_k_ = MaxTopK

SetUpDecode ==
  /\ gpIn = NoArgs
  /\ gpIn' \in [output_buffer : Tensors, transform_matrix : Matrices, conf_threshold : {50, 85}]
  /\ UNCHANGED <<infer_callback_, cbWriting, conf_threshold_, top_k_, nms_threshold_,
                 ptsBuild, crashed, tasks, lbIn, lbOut, gpOut>>

CallGenerateProposals ==
  /\ gpIn # NoArgs
  /\ gpOut = NotCalled
  /\ gpOut' = generate_proposals(gpIn.output_buffer, gpIn.transform_matrix,
                                 gpIn.conf_threshold, ptsBuild)
  /\ UNCHANGED <<infer_callback_, cbWriting, conf_threshold_, top_k_, nms_threshold_,
                 ptsBuild, crashed, tasks, lbIn, lbOut, gpIn>>

NextDecode == SetUpDecode \/ CallGenerateProposals

SpecDecode == InitDecode /\ [][NextDecode]_vars

----------------------------------------------------------------------------
(* Properties of letterbox *)

\* C9: for every non-empty source size and every target W x H, letterbox
\* returns an image of exactly W x H: the resized sides are within 1..W and
\* 1..H, the four paddings are non-negative, top + bottom = H - resize_h,
\* left + right = W - resize_w, and the leading side (top, left) gets the
\* smaller half of an odd padding.
C9_LetterboxExactSize ==
  lbOut.st # "none" =>
    /\ lbOut.st = "ok"
    /\ lbOut.out_w = lbIn.new_shape[1]
    /\ lbOut.out_h = lbIn.new_shape[2]
    /\ lbOut.resize_w \in 1 .. lbIn.new_shape[1]
    /\ lbOut.resize_h \in 1 .. lbIn.new_shape[2]
    /\ lbOut.top >= 0 /\ lbOut.bottom >= 0 /\ lbOut.left >= 0 /\ lbOut.right >= 0
    /\ lbOut.top + lbOut.bottom = lbIn.new_shape[2] - lbOut.resize_h
    /\ lbOut.left + lbOut.right = lbIn.new_shape[1] - lbOut.resize_w
    /\ lbOut.bottom - lbOut.top = (lbIn.new_shape[2] - lbOut.resize_h) % 2
    /\ lbOut.right - lbOut.left = (lbIn.new_shape[1] - lbOut.resize_w) % 2

\* forward map of the letterbox: scale, then the integer leading padding
ForwardMap(out, pt) ==
  <<RAdd(RMul(pt[1], out.scale), RInt(out.left)),
    RAdd(RMul(pt[2], out.scale), RInt(out.top))>>

Corners(new_shape) ==
  {<<RInt(x), RInt(y)>> : x \in {0, new_shape[1]}, y \in {0, new_shape[2]}}

\* C10: each corner of the padded network image, sent through the inverse
\* matrix letterbox produced and back through the forward scale and the
\* leading padding (left, top) it used, lands within 1 pixel of itself on
\* each axis.
C10_LetterboxInvertible ==
  lbOut.st = "ok" =>
    \A c \in Corners(lbIn.new_shape) :
      LET back == ForwardMap(lbOut, ApplyTransform(lbOut.transform_matrix, c))
      IN  /\ RLeq(RAbs(RSub(back[1], c[1])), RInt(1))
          /\ RLeq(RAbs(RSub(back[2], c[2])), RInt(1))

\* a call with a real rescale and an odd padding of at least 3 on an axis
C10_Witness ==
  /\ lbOut.st = "ok"
  /\ lbOut.scale # <<1, 1>>
  /\ lbOut.pad_w >= 3 /\ lbOut.pad_w % 2 = 1
  /\ lbOut.left + 1 = lbOut.right

----------------------------------------------------------------------------
(* Properties of the dispatcher *)

Submitted(s) == tasks[s].pc # "idle"
NonEmpty(s) == Submitted(s) /\ ~IsEmpty(tasks[s].frame)

\* C1: push_input with an empty frame returns a handle that resolves to
\* false, and for that submission neither the compiled model nor the
\* callback is ever invoked, whatever callback is registered.
C1_EmptyFrameShortCircuit ==
  \A s \in Subs :
    (Submitted(s) /\ IsEmpty(tasks[s].frame)) =>
      /\ tasks[s].pc \in {"lambda", "done"}
      /\ tasks[s].modelCalls = 0
      /\ tasks[s].cbCalls = 0
      /\ tasks[s].result = IF tasks[s].pc = "done" THEN "false" ELSE "pending"

\* an empty frame pushed while a callback was registered, resolved while
\* one is registered
C1_Witness ==
  \E s \in Subs :
    /\ IsEmpty(tasks[s].frame)
    /\ tasks[s].pc = "done"
    /\ tasks[s].result = "false"
    /\ tasks[s].cbAtSchedule # 0
    /\ infer_callback_ # 0

\* C2: for every push_input with a non-empty frame the callback is invoked
\* at most once for that submission, the handle resolves to true exactly
\* when the callback was invoked, and when no callback is registered the
\* model is still run and the handle resolves to false with no invocation.
C2_DeliveryMatchesResult ==
  \A s \in Subs :
    NonEmpty(s) =>
      /\ tasks[s].cbCalls <= 1
      /\ Len(tasks[s].delivered) = tasks[s].cbCalls
      /\ (tasks[s].result = "true") <=> (tasks[s].cbCalls = 1)
      /\ (tasks[s].pc = "done" /\ ~tasks[s].cbTested) =>
           /\ tasks[s].modelCalls = 1
           /\ tasks[s].result = "false"
           /\ tasks[s].cbCalls = 0

\* one submission delivered and resolved true, another ran the model with
\* no callback registered and resolved false
C2_Witness ==
  \E s, r \in Subs :
    /\ NonEmpty(s) /\ tasks[s].pc = "done" /\ tasks[s].result = "true"
    /\ tasks[s].cbCalls = 1
    /\ NonEmpty(r) /\ tasks[r].pc = "done" /\ tasks[r].result = "false"
    /\ tasks[r].modelCalls = 1 /\ ~tasks[r].cbTested

\* C7: the callback a unit of work tests for presence and invokes is the
\* one registered when push_input scheduled it; a later set_callback changes
\* neither the callback invoked nor whether the handle resolves true.
C7_CallbackSnapshotAtSchedule ==
  \A s \in Subs :
    (NonEmpty(s) /\ tasks[s].pc \in {"invoke", "done"}) =>
      /\ tasks[s].cbTested <=> (tasks[s].cbAtSchedule # 0)
      /\ (tasks[s].cbCalls > 0) => (tasks[s].cbInvoked = tasks[s].cbAtSchedule)
      /\ (tasks[s].pc = "done") =>
           ((tasks[s].result = "true") <=> (tasks[s].cbAtSchedule # 0))

InInfer == {s \in Subs : tasks[s].pc = "infer"}

\* C8: calls into the compiled model are serialized: at most one unit of
\* work is inside the model's inference call at any time.
C8_InferenceSerialized == Cardinality(InInfer) <= 1

\* C8 as amended: inference is not serialized; every unit of work enters the
\* model's inference call exactly once, on a request of its own, so the units
\* inside the call are as many as the submissions that have reached it.
C8_OneInferencePerUnit ==
  \A s \in Subs :
    /\ tasks[s].modelCalls =
         IF tasks[s].pc \in {"infer", "decoded", "invoke", "aborted"} THEN 1
         ELSE IF tasks[s].pc = "done" /\ ~IsEmpty(tasks[s].frame) THEN 1
         ELSE 0

\* two units of work inside the inference call at the same time
C8_Witness ==
  \E s, r \in Subs : s # r /\ tasks[s].pc = "infer" /\ tasks[r].pc = "infer"

----------------------------------------------------------------------------
(* Properties of decoding and filtering *)

\* C3: the list delivered to the callback is the projection of the filter's
\* indices onto the candidate list: the k-th delivered detection is the
\* candidate at the k-th index the filter returned.
C3_DeliveredIsProjection ==
  \A s \in Subs :
    \A c \in 1 .. Len(tasks[s].delivered) :
      LET objs == tasks[s].delivered[c].objs
      IN  /\ Len(objs) = Len(tasks[s].indices)
          /\ \A k \in 1 .. Len(objs) : objs[k] = tasks[s].objs_tmp[tasks[s].indices[k]]

\* C4: when the output holds exactly two candidates at or above the
\* confidence threshold and their boxes overlap by more than the overlap
\* threshold, the callback receives exactly one detection with the colour,
\* number and confidence of the higher-confidence candidate, whichever row
\* it occupies.
C4_OverlappingPairKeepsBest ==
  \A s \in Subs :
    \A c \in 1 .. Len(tasks[s].delivered) :
      LET objs == tasks[s].delivered[c].objs
          cand == tasks[s].objs_tmp
      IN  (/\ Len(cand) = 2
           /\ cand[1].prob # cand[2].prob
           /\ OverlapExceeds(cand[1].box, cand[2].box, nms_threshold_)) =>
            LET best == IF cand[1].prob > cand[2].prob THEN cand[1] ELSE cand[2]
            IN  /\ Len(objs) = 1
                /\ objs[1].color = best.color
                /\ objs[1].number = best.number
                /\ objs[1].prob = best.prob

\* greedy suppression without a cap: the candidates in descending
\* confidence, each kept unless it overlaps an already kept one too much
Survivors(rects, scores, nms_threshold) ==
  NMSFast(<<>>, SortDesc(scores, 1 .. Len(scores)), 1, rects, nms_threshold)

\* C5: the delivered list never holds more than the configured maximum; when
\* more candidates survive suppression than the maximum, exactly the maximum
\* is delivered and they are the highest-confidence survivors.
C5_TopKCap ==
  \A s \in Subs :
    \A c \in 1 .. Len(tasks[s].delivered) :
      LET objs == tasks[s].delivered[c].objs
          surv == Survivors(tasks[s].rects, tasks[s].scores, nms_threshold_)
      IN  /\ Len(objs) <= top_k_
          /\ Len(surv) > top_k_ =>
               /\ Len(objs) = top_k_
               /\ \A k \in 1 .. top_k_ : objs[k].prob = tasks[s].objs_tmp[surv[k]].prob

\* C6: generate_proposals outputs exactly the rows whose confidence is at
\* least the threshold (a row at the threshold is kept, one below is
\* dropped), one candidate per kept row in row order, and objects, scores
\* and boxes have equal length and matching positions.
C6_ProposalsAreKeptRows ==
  gpOut.st = "ok" =>
    LET AtLeast(row) == At(row, 8) >= gpIn.conf_threshold
        kept == SelectSeq(gpIn.output_buffer, AtLeast)
    IN  /\ Len(gpOut.output_objs) = Len(kept)
        /\ Len(gpOut.scores) = Len(kept)
        /\ Len(gpOut.rects) = Len(kept)
        /\ \A k \in 1 .. Len(kept) :
             /\ gpOut.output_objs[k].prob = At(kept[k], 8)
             /\ gpOut.output_objs[k].color = ArgMax(ColRange(kept[k], 9, 13))
             /\ gpOut.output_objs[k].number = ArgMax(ColRange(kept[k], 13, 21))
             /\ gpOut.scores[k] = gpOut.output_objs[k].prob
             /\ gpOut.rects[k] = gpOut.output_objs[k].box

\* a tensor with a row exactly at the threshold after a row below it
C6_Witness ==
  /\ gpOut.st = "ok"
  /\ Len(gpIn.output_buffer) >= 2
  /\ At(gpIn.output_buffer[1], 8) < gpIn.conf_threshold
  /\ At(gpIn.output_buffer[2], 8) = gpIn.conf_threshold
  /\ Len(gpOut.output_objs) = 1
  /\ gpOut.output_objs[1].prob = gpIn.conf_threshold

====
